---- MODULE Spec2Model ----
(***************************************************************************)
(* Model of the pytorch-3dunet benchmarking harness:                       *)
(*   config.py   load_config                                               *)
(*   trainer.py  create_trainer, UNet3DTrainer.__init__/fit/train/         *)
(*               should_stop                                               *)
(* One run is the program  config = load_config();                         *)
(* trainer = create_trainer(config); trainer.fit().                        *)
(* Framework calls (model forward, loss, backward, optimizer step, memory  *)
(* format conversion, clock) are abstracted to their effect on the control *)
(* flow: which calls are issued, whether the conversion raises, how long   *)
(* an iteration took.                                                      *)
(***************************************************************************)
EXTENDS Integers, Sequences, FiniteSets, TLC

(* ------------------------------ bounds -------------------------------- *)
\* largest --num_iter drawn
MaxNumIter == 3
\* largest --num_warmup drawn
MaxWarmup == 2
\* largest length of the train loader
MaxTrainLen == 3
\* largest num_iterations stored in a resumed checkpoint
MaxResumeIter == 2
\* largest measured duration of one iteration, in clock ticks
MaxDuration == 2
\* the larger of the two max_num_iterations values of the trainer section
MaxCfgIterations == 5
\* largest length of the validation loader
MaxValLen == 4
\* largest validate_iters drawn
MaxValidateIters == 3
\* largest number of epochs finished by a trainer that saves a checkpoint
MaxSavedEpochs == 2

(* ------------------------- program constants -------------------------- *)
\* min_lr = 1e-6, in units of 1e-7
MinLr == 10
\* argparse defaults
DefaultBatchSize == 1
DefaultChannelsLast == 1
DefaultNumIter == 200
DefaultNumWarmup == 20

(* --------------------------- python values ---------------------------- *)
None == [kind |-> "None"]
EmptyDict == << >>
HasKey(d, k) == k \in DOMAIN d
\* d[k] = v
SetItem(d, k, v) == [x \in (DOMAIN d) \cup {k} |-> IF x = k THEN v ELSE d[x]]
\* d.pop(k, default): the dictionary left behind
Popped(d, k) == [x \in (DOMAIN d) \ {k} |-> d[x]]
\* d.get(k, default)
Get(d, k, default) == IF k \in DOMAIN d THEN d[k] ELSE default
\* truth value of an int
Truthy(n) == n # 0
Min(a, b) == IF a <= b THEN a ELSE b

\* an int held where None is possible as well
IntVal(n) == [kind |-> "int", v |-> n]
\* a YAML string scalar
Str(s) == [kind |-> "str", v |-> s]
\* str.startswith('cuda') on the device strings of the model
StartsWithCuda(s) == s \in {"cuda", "cuda:0", "cuda:1"}
\* torch.device(s): the device type and index parsed from the string
TorchDevice(s) ==
    [kind |-> "device",
     type |-> CASE s \in {"cuda", "cuda:0"} -> "cuda"
                [] s = "xpu" -> "xpu"
                [] OTHER -> "cpu",
     index |-> IF s = "cuda:0" THEN 0 ELSE -1]
\* torch.device != str: a device never compares equal to a string
DeviceNeStr(d, s) == TRUE

(* ------------------------------ inputs -------------------------------- *)
Devices == {"cpu", "cuda", "xpu"}
YamlDevices == {"cpu", "cuda:0", "xpu"}
Sections == {"loaders", "trainer", "optimizer", "lr_scheduler", "model"}
\* learning rates in units of 1e-7: one below min_lr, one above
LearningRates == {5, 2000}
CheckpointPath == "ckpt/last_checkpoint.pytorch"
\* os.path.split(path)[0]
\* the directories and the file names of checkpoints
CheckpointDirs == {"out", "ckpt"}
LastCheckpoint == "last_checkpoint.pytorch"
BestCheckpoint == "best_checkpoint.pytorch"
PathJoin(dir, file) == dir \o "/" \o file
DirName(path) ==
    IF \E d \in CheckpointDirs, f \in {LastCheckpoint, BestCheckpoint} :
           path = PathJoin(d, f)
    THEN CHOOSE d \in CheckpointDirs :
           \E f \in {LastCheckpoint, BestCheckpoint} : path = PathJoin(d, f)
    ELSE ""
NegInf == -1000
PosInf == 1000
\* the scores an evaluation can give
EvalScores == {3, 9}

\* the command lines: parse_args() of lines 12-25
ArgsOf(B, P, C, J, F, I, W, D) ==
    [batch_size : B, precision : P, channels_last : C, jit : J,
     profile : BOOLEAN, num_iter : I, num_warmup : W, device : D,
     nv_fuser : F, ipex : F]
ArgsSet ==
    ArgsOf({2}, {"float32"}, {0, DefaultChannelsLast}, {FALSE}, {FALSE},
           0..MaxNumIter, 0..MaxWarmup, Devices)
ArgsSetConfig ==
    ArgsOf({DefaultBatchSize, 2}, {"float32", "bfloat16"}, {0, DefaultChannelsLast},
           BOOLEAN, {FALSE}, {2, DefaultNumIter}, {0, DefaultNumWarmup}, Devices)

\* checkpoints a run can resume from
CheckpointStates ==
    [num_epochs : {1}, num_iterations : 1..MaxResumeIter, best_eval_score : {7}]

TrainerSection(e, m) ==
    [checkpoint_dir |-> "out", max_num_epochs |-> e, max_num_iterations |-> m,
     validate_after_iters |-> 2, log_after_iters |-> 1]
YamlFull(lr, tsec) ==
    [model |-> [name |-> "UNet3D"],
     loaders |-> [batch_size |-> 4, num_workers |-> 8],
     optimizer |-> [learning_rate |-> lr],
     lr_scheduler |-> [name |-> "MultiStepLR"],
     trainer |-> tsec,
     manual_seed |-> 0]
\* keys of the command line that a YAML file may carry as well
WithCliKeys(y) ==
    [x \in (DOMAIN y) \cup {"precision", "channels_last", "jit", "profile", "num_iter",
                            "num_warmup", "nv_fuser", "ipex", "device_str"} |->
        CASE x = "precision" -> "float16"
          [] x = "channels_last" -> 7
          [] x = "jit" -> TRUE
          [] x = "profile" -> TRUE
          [] x = "num_iter" -> 9
          [] x = "num_warmup" -> 8
          [] x = "nv_fuser" -> TRUE
          [] x = "ipex" -> TRUE
          [] x = "device_str" -> "tpu"
          [] OTHER -> y[x]]
TrainerSections(E, M, withResume) ==
    {TrainerSection(e, m) : e \in E, m \in M}
    \cup (IF withResume
          THEN {SetItem(TrainerSection(e, m), "resume", CheckpointPath) : e \in E, m \in M}
          ELSE {})
FullYamls(LR, TS) == {YamlFull(lr, t) : lr \in LR, t \in TS}
\* the YAML files: complete, with a device, with command-line keys, one section short
YamlVariants(Y, devs, cli, drop) ==
    LET withDev == Y \cup {SetItem(y, "device", Str(d)) : y \in Y, d \in devs}
        withCli == withDev \cup (IF cli THEN {WithCliKeys(y) : y \in withDev} ELSE {})
    IN  withCli \cup {Popped(y, s) : y \in withCli, s \in drop}
YamlDocs ==
    YamlVariants(FullYamls(LearningRates,
                           TrainerSections({1, 2}, {1, MaxCfgIterations}, TRUE)),
                 {}, FALSE, Sections)
YamlDocsConfig ==
    YamlVariants(FullYamls({2000}, TrainerSections({1}, {MaxCfgIterations}, FALSE)),
                 YamlDevices, TRUE, Sections)

(* ------------------------------- state -------------------------------- *)
VARIABLES
    pc,              \* position of the program
    exc,             \* the uncaught exception that ended the run, or "None"
    args,            \* parse_args() result
    yaml_file,       \* content of the --config file
    cuda_available,  \* torch.cuda.is_available()
    disk,            \* checkpoint files: path -> saved state
    config,          \* the config dictionary (load_config's result, mutated in place)
    model_format,    \* memory format of the model
    train_len,       \* len(loaders['train'])
    lr_config,       \* what create_trainer hands to create_lr_scheduler
    trainer,         \* constructor arguments of UNet3DTrainer kept on self
    num_iterations,  \* self.num_iterations
    num_epochs,      \* self.num_epochs
    best_eval_score, \* self.best_eval_score
    checkpoint_dir,  \* self.checkpoint_dir
    batch,           \* number of train batches taken from the loader by train()
    total_time,      \* train(): total_time
    total_count,     \* train(): total_count
    calls,           \* framework calls of the last training iteration, in order
    input_format,    \* memory format of the input of the last forward pass
    conversion,      \* channels-last conversion of the last step: "none", "ok", "failed"
    report,          \* the printed aggregate report of train(), or None
    should_terminate,\* fit(): return value of train()
    validate_calls,  \* calls of validate() made by fit()/train()
    scheduler_steps, \* calls of lr_scheduler.step() made by fit()/train()
    validate_iters,  \* self.validate_iters: None or an int
    val_len,         \* len(loaders['val'])
    val_i,           \* validate(): number of validation batches taken from the loader
    val_forward,     \* validate(): forward passes made
    val_updates,     \* validate(): val_scores.update calls made
    eval_score_higher_is_better, \* self.eval_score_higher_is_better
    is_best,         \* result of _is_best_eval_score handed to _save_checkpoint
    saver            \* progress of the trainer at the moment it saved, None before

vars == <<pc, exc, args, yaml_file, cuda_available, disk, config, model_format, train_len,
          lr_config, trainer, num_iterations, num_epochs, best_eval_score, checkpoint_dir,
          batch, total_time, total_count, calls, input_format, conversion, report,
          should_terminate, validate_calls, scheduler_steps, validate_iters, val_len,
          val_i, val_forward, val_updates, eval_score_higher_is_better, is_best, saver>>

configVars == <<args, yaml_file, cuda_available, disk>>
trainVars == <<batch, total_time, total_count, calls, input_format, report, should_terminate>>
valVars == <<validate_iters, val_len, val_i, val_forward, val_updates>>
ckptVars == <<eval_score_higher_is_better, is_best, saver>>
counters == <<validate_calls, scheduler_steps, valVars, ckptVars>>
selfVars == <<trainer, num_iterations, num_epochs, best_eval_score, checkpoint_dir>>

InitOver(A, Y, CUDA) ==
    /\ pc = "load_config"
    /\ exc = "None"
    /\ args \in A
    /\ yaml_file \in Y
    /\ cuda_available \in CUDA
    /\ disk \in IF HasKey(yaml_file, "trainer") /\ HasKey(yaml_file.trainer, "resume")
               THEN {[p \in {yaml_file.trainer.resume} |-> st] : st \in CheckpointStates}
               ELSE {EmptyDict}
    /\ config = EmptyDict
    /\ model_format = "contiguous"
    /\ train_len = 0
    /\ lr_config = None
    /\ trainer = None
    /\ num_iterations = 0
    /\ num_epochs = 0
    /\ best_eval_score = NegInf
    /\ checkpoint_dir = ""
    /\ batch = 0
    /\ total_time = 0
    /\ total_count = 0
    /\ calls = << >>
    /\ input_format = "contiguous"
    /\ conversion = "none"
    /\ report = None
    /\ should_terminate = FALSE
    /\ validate_calls = 0
    /\ scheduler_steps = 0
    /\ validate_iters = None
    /\ val_len = 0
    /\ val_i = 0
    /\ val_forward = 0
    /\ val_updates = 0
    /\ eval_score_higher_is_better = TRUE
    /\ is_best = FALSE
    /\ saver = None

Init == InitOver(ArgsSet, YamlDocs, {FALSE})
InitConfig == InitOver(ArgsSetConfig, YamlDocsConfig, BOOLEAN)

(* ---------------------------- load_config ----------------------------- *)
\* lines 28-36: the device resolved from the YAML file and CUDA availability
ResolveDevice(y, cuda) ==
    LET device_str == Get(y, "device", None)
    IN  IF device_str # None
        THEN IF StartsWithCuda(device_str.v) /\ ~cuda THEN "cpu" ELSE device_str.v
        ELSE IF cuda THEN "cuda:0" ELSE "cpu"

\* line 38: the device load_config goes on with
DeviceChoice(a) == a.device

\* lines 39-41: config['device'], config['device_str']
SetDevice(y, device_str) ==
    SetItem(SetItem(y, "device", TorchDevice(device_str)), "device_str", device_str)

\* line 42: config['loaders']['batch_size'] = args.batch_size
SetBatchSize(c, a) ==
    SetItem(c, "loaders", SetItem(c.loaders, "batch_size", a.batch_size))

\* lines 43-50 written with setdefault: a key of the YAML file keeps its value
SetCliKeysKeepYaml(c, a) ==
    LET Keep(d, k, v) == IF HasKey(d, k) THEN d ELSE SetItem(d, k, v)
        c1 == Keep(c, "precision", a.precision)
        c2 == Keep(c1, "channels_last", a.channels_last)
        c3 == Keep(c2, "jit", a.jit)
        c4 == Keep(c3, "profile", a.profile)
        c5 == Keep(c4, "num_iter", a.num_iter)
        c6 == Keep(c5, "num_warmup", a.num_warmup)
        c7 == Keep(c6, "nv_fuser", a.nv_fuser)
    IN  Keep(c7, "ipex", a.ipex)

\* lines 43-50: the command-line values stored under their keys
SetCliKeys(c, a) ==
    LET c1 == SetItem(c, "precision", a.precision)
        c2 == SetItem(c1, "channels_last", a.channels_last)
        c3 == SetItem(c2, "jit", a.jit)
        c4 == SetItem(c3, "profile", a.profile)
        c5 == SetItem(c4, "num_iter", a.num_iter)
        c6 == SetItem(c5, "num_warmup", a.num_warmup)
        c7 == SetItem(c6, "nv_fuser", a.nv_fuser)
    IN  SetItem(c7, "ipex", a.ipex)

\* load_config(): the YAML dictionary merged with the command line, or KeyError
LoadConfig ==
    /\ pc = "load_config"
    /\ LET c == SetDevice(yaml_file, DeviceChoice(args))
       IN  IF HasKey(c, "loaders")
           THEN /\ config' = SetCliKeys(SetBatchSize(c, args), args)
                /\ pc' = "create_trainer"
                /\ exc' = "None"
           ELSE /\ config' = c
                /\ pc' = "raised"
                /\ exc' = "KeyError"
    /\ UNCHANGED <<configVars, model_format, train_len, lr_config, selfVars, trainVars,
                   conversion, counters>>

(* --------------------------- create_trainer --------------------------- *)
Raise(e) ==
    /\ pc' = "raised"
    /\ exc' = e

\* lines 22-31: get_model(config['model']), model.to(device)
CreateModel ==
    /\ pc = "create_trainer"
    /\ IF HasKey(config, "model")
       THEN pc' = "channels_last" /\ exc' = exc
       ELSE Raise("KeyError")
    /\ UNCHANGED <<configVars, config, model_format, train_len, lr_config, selfVars,
                   trainVars, conversion, counters>>

\* line 33: is the model converted to channels-last
ModelConversionWanted(c) == Truthy(c.channels_last) /\ DeviceNeStr(c.device, "xpu")

\* lines 34-39: the memory format after model.to(memory_format=channels_last_3d),
\* which either succeeds or raises RuntimeError (caught)
ModelFormatAfter(format, ok) == IF ok THEN "channels_last_3d" ELSE format

\* lines 33-39
ModelChannelsLast ==
    /\ pc = "channels_last"
    /\ IF ModelConversionWanted(config)
       THEN \E ok \in BOOLEAN :
               /\ model_format' = ModelFormatAfter(model_format, ok)
               /\ conversion' = IF ok THEN "ok" ELSE "failed"
       ELSE model_format' = model_format /\ conversion' = "none"
    /\ pc' = "loaders"
    /\ UNCHANGED <<exc, configVars, config, train_len, lr_config, selfVars, trainVars,
                   counters>>

\* lines 45-50: loss criterion, evaluation metric and the loaders; the train loader
\* has any length up to MaxTrainLen
CreateLoaders ==
    /\ pc = "loaders"
    /\ \E n \in 0..MaxTrainLen : train_len' = n
    /\ pc' = "optimizer"
    /\ UNCHANGED <<exc, configVars, config, model_format, lr_config, selfVars, trainVars,
                   conversion, counters>>

\* line 53 written with config.get('optimizer', None): no KeyError
CreateOptimizerWithDefault ==
    /\ pc = "optimizer"
    /\ pc' = "lr_scheduler"
    /\ config' = IF HasKey(config, "optimizer") THEN config
                 ELSE SetItem(config, "optimizer", [learning_rate |-> 2000])
    /\ UNCHANGED <<exc, configVars, model_format, train_len, lr_config, selfVars,
                   trainVars, conversion, counters>>

\* lines 53-57: create_optimizer(config['optimizer'], model)
CreateOptimizer ==
    /\ pc = "optimizer"
    /\ IF HasKey(config, "optimizer")
       THEN pc' = "lr_scheduler" /\ exc' = exc
       ELSE Raise("KeyError")
    /\ UNCHANGED <<configVars, config, model_format, train_len, lr_config, selfVars,
                   trainVars, conversion, counters>>

\* line 60: the scheduler section handed to create_lr_scheduler
LrSchedulerConfig(c) == Get(c, "lr_scheduler", None)

\* line 60: create_lr_scheduler(config.get('lr_scheduler', None), optimizer)
CreateLrScheduler ==
    /\ pc = "lr_scheduler"
    /\ lr_config' = LrSchedulerConfig(config)
    /\ pc' = "trainer"
    /\ UNCHANGED <<exc, configVars, config, model_format, train_len, selfVars, trainVars,
                   conversion, counters>>

\* lines 158-168: the training progress a new trainer starts from
RestoredState(resume, files) ==
    IF resume # None
    THEN [num_epochs |-> files[resume.v].num_epochs,
          num_iterations |-> files[resume.v].num_iterations,
          best_eval_score |-> files[resume.v].best_eval_score]
    ELSE [num_epochs |-> 0, num_iterations |-> 0, best_eval_score |-> NegInf]

\* lines 62-80 and __init__ (115-173): the trainer section is read, resume is popped
\* from it and the trainer is constructed
CreateTrainerObject ==
    /\ pc = "trainer"
    /\ IF HasKey(config, "trainer")
       THEN LET trainer_config == config.trainer
                resume == IF HasKey(trainer_config, "resume")
                          THEN Str(trainer_config.resume) ELSE None
                state == RestoredState(resume, disk)
            IN  /\ config' = SetItem(config, "trainer", Popped(trainer_config, "resume"))
                /\ trainer' = [max_num_epochs |-> trainer_config.max_num_epochs,
                               max_num_iterations |-> trainer_config.max_num_iterations,
                               validate_after_iters |-> trainer_config.validate_after_iters,
                               lr |-> config.optimizer.learning_rate,
                               resume |-> resume]
                /\ num_iterations' = state.num_iterations
                /\ num_epochs' = state.num_epochs
                /\ best_eval_score' = state.best_eval_score
                /\ checkpoint_dir' = IF resume # None THEN DirName(resume.v)
                                     ELSE trainer_config.checkpoint_dir
                /\ pc' = "fit"
                /\ exc' = exc
       ELSE /\ Raise("KeyError")
            /\ UNCHANGED <<config, selfVars>>
    /\ UNCHANGED <<configVars, model_format, train_len, lr_config, trainVars, conversion,
                   counters>>

(* ------------------------------- train -------------------------------- *)
\* lines 204, 252, 315: which of the three copies of the batch loop runs
TrainPath(c) ==
    IF c.profile /\ c.device_str = "xpu" THEN "xpu_profile"
    ELSE IF c.profile /\ c.device_str # "xpu" THEN "profile"
    ELSE "plain"

\* line 202 without its "- 1"
LastIterNoMinusOne(len, c) == Min(len, c.num_iter)

\* line 202
LastIter(len, c) == Min(len, c.num_iter) - 1

\* lines 228, 306, 359: is this iteration part of the measurement
Timed(it, c, last_iter) == it >= c.num_warmup /\ it < last_iter

\* lines 247, 310, 363: does the loop break after this iteration
BreakNow(it, c) == it >= c.num_iter

\* _forward_pass (438-448) and lines 219-221, 295-297, 347-349
TrainingCalls == <<"forward", "loss", "zero_grad", "backward", "step">>

\* lines 276-282, 325-331: the input's memory format for the forward pass and what
\* became of the conversion; ok = FALSE is the RuntimeError, which is caught
InputConversion(c, ok) ==
    IF Truthy(c.channels_last) /\ c.device_str # "xpu"
    THEN IF ok THEN [format |-> "channels_last_3d", conversion |-> "ok"]
         ELSE [format |-> "contiguous", conversion |-> "failed"]
    ELSE [format |-> "contiguous", conversion |-> "none"]

\* the loop variables one iteration of train() works on
LoopState ==
    [num_iterations |-> num_iterations, total_time |-> total_time,
     total_count |-> total_count]

\* the unprofiled loop body with the except clause of lines 329-331 missing: the
\* RuntimeError of the conversion ends the iteration before the forward pass
PlainBodyUncaught(st, c, last_iter, ok, duration) ==
    LET conv == InputConversion(c, ok)
        timed == Timed(st.num_iterations, c, last_iter)
        stop == BreakNow(st.num_iterations, c)
    IN  IF conv.conversion = "failed"
        THEN [num_iterations |-> st.num_iterations, total_time |-> st.total_time,
              total_count |-> st.total_count, calls |-> << >>,
              input_format |-> conv.format, conversion |-> conv.conversion,
              stop |-> FALSE, exc |-> "RuntimeError"]
        ELSE [num_iterations |-> IF stop THEN st.num_iterations
                                 ELSE st.num_iterations + 1,
              total_time |-> IF timed THEN st.total_time + duration ELSE st.total_time,
              total_count |-> IF timed THEN st.total_count + 1 ELSE st.total_count,
              calls |-> TrainingCalls, input_format |-> conv.format,
              conversion |-> conv.conversion, stop |-> stop, exc |-> "None"]

\* lines 316-366: one iteration of the unprofiled loop
PlainBody(st, c, last_iter, ok, duration) ==
    LET conv == InputConversion(c, ok)
        timed == Timed(st.num_iterations, c, last_iter)
        stop == BreakNow(st.num_iterations, c)
    IN  [num_iterations |-> IF stop THEN st.num_iterations ELSE st.num_iterations + 1,
         total_time |-> IF timed THEN st.total_time + duration ELSE st.total_time,
         total_count |-> IF timed THEN st.total_count + 1 ELSE st.total_count,
         calls |-> TrainingCalls,
         input_format |-> conv.format,
         conversion |-> conv.conversion,
         stop |-> stop,
         exc |-> "None"]

\* lines 267-313: one iteration of the loop under torch.profiler.profile
ProfileBody(st, c, last_iter, ok, duration) ==
    LET conv == InputConversion(c, ok)
        timed == Timed(st.num_iterations, c, last_iter)
        stop == BreakNow(st.num_iterations, c)
    IN  [num_iterations |-> IF stop THEN st.num_iterations ELSE st.num_iterations + 1,
         total_time |-> IF timed THEN st.total_time + duration ELSE st.total_time,
         total_count |-> IF timed THEN st.total_count + 1 ELSE st.total_count,
         calls |-> TrainingCalls,
         input_format |-> conv.format,
         conversion |-> conv.conversion,
         stop |-> stop,
         exc |-> "None"]

\* lines 205-250: one iteration of the loop under the xpu legacy profiler; the input is
\* not converted, and line 232 reads the name args, which trainer.py never binds
XpuProfileBody(st, c, last_iter, ok, duration) ==
    LET timed == Timed(st.num_iterations, c, last_iter)
    IN  [num_iterations |-> st.num_iterations,
         total_time |-> IF timed THEN st.total_time + duration ELSE st.total_time,
         total_count |-> IF timed THEN st.total_count + 1 ELSE st.total_count,
         calls |-> TrainingCalls,
         input_format |-> "contiguous",
         conversion |-> "none",
         stop |-> FALSE,
         exc |-> "NameError"]

\* the for statement around a loop body: the next batch, the end of the loader, a break
\* or an exception
LoopStep(r) ==
    /\ num_iterations' = r.num_iterations
    /\ total_time' = r.total_time
    /\ total_count' = r.total_count
    /\ calls' = r.calls
    /\ input_format' = r.input_format
    /\ conversion' = r.conversion
    /\ batch' = batch + 1
    /\ exc' = r.exc
    /\ pc' = IF r.exc # "None" THEN "raised"
             ELSE IF r.stop \/ batch + 1 = train_len THEN "train_report"
             ELSE "train_loop"
    /\ UNCHANGED <<configVars, config, model_format, train_len, lr_config, trainer,
                   num_epochs, best_eval_score, checkpoint_dir, report, should_terminate,
                   counters>>

TrainIterPlain ==
    /\ pc = "train_loop"
    /\ TrainPath(config) = "plain"
    /\ \E ok \in BOOLEAN, duration \in 1..MaxDuration :
          LoopStep(PlainBody(LoopState, config, LastIter(train_len, config), ok, duration))

TrainIterProfile ==
    /\ pc = "train_loop"
    /\ TrainPath(config) = "profile"
    /\ \E ok \in BOOLEAN, duration \in 1..MaxDuration :
          LoopStep(ProfileBody(LoopState, config, LastIter(train_len, config), ok, duration))

TrainIterXpuProfile ==
    /\ pc = "train_loop"
    /\ TrainPath(config) = "xpu_profile"
    /\ \E ok \in BOOLEAN, duration \in 1..MaxDuration :
          LoopStep(XpuProfileBody(LoopState, config, LastIter(train_len, config), ok,
                                  duration))

\* lines 193-203: train() starts; an empty loader skips the loop
TrainBegin ==
    /\ pc = "train"
    /\ total_time' = 0
    /\ total_count' = 0
    /\ batch' = 0
    /\ pc' = IF train_len = 0 THEN "train_report" ELSE "train_loop"
    /\ UNCHANGED <<exc, configVars, config, model_format, train_len, lr_config, selfVars,
                   calls, input_format, conversion, report, should_terminate, counters>>

\* a quotient of two numbers, kept as numerator and denominator
Frac(n, d) == [num |-> n, den |-> d]
\* lines 368-371 for total_count # 0:
\*   avg_time = total_time / total_count
\*   latency = avg_time / batch_size * 1000,  perf = batch_size / avg_time
ReportOf(time, count, batch_size) ==
    LET avg_time == Frac(time, count)
    IN  [total_time |-> time, total_count |-> count,
         latency |-> Frac(avg_time.num * 1000, avg_time.den * batch_size),
         perf |-> Frac(batch_size * avg_time.den, avg_time.num)]

\* line 375: the value train() returns
TrainReturnValue == TRUE

\* lines 368-375: the aggregate report, or the division by zero of line 369
TrainReport ==
    /\ pc = "train_report"
    /\ IF total_count = 0
       THEN /\ Raise("ZeroDivisionError")
            /\ UNCHANGED <<report, should_terminate>>
       ELSE /\ report' = ReportOf(total_time, total_count, config.loaders.batch_size)
            /\ should_terminate' = TrainReturnValue
            /\ pc' = "train_returned"
            /\ exc' = exc
    /\ UNCHANGED <<configVars, config, model_format, train_len, lr_config, selfVars,
                   batch, total_time, total_count, calls, input_format, conversion,
                   counters>>

\* lines 377-392
should_stop ==
    \/ trainer.max_num_iterations < num_iterations
    \/ trainer.lr < MinLr

(* -------------------------------- fit --------------------------------- *)
\* line 176: the next round of  for _ in range(self.num_epochs, self.max_num_epochs)
FitLoop ==
    /\ pc = "fit"
    /\ pc' = IF num_epochs < trainer.max_num_epochs THEN "train" ELSE "done"
    /\ UNCHANGED <<exc, configVars, config, model_format, train_len, lr_config, selfVars,
                   trainVars, conversion, counters>>

\* lines 178-184: fit() after train() returned
FitAfterTrain ==
    /\ pc = "train_returned"
    /\ IF should_terminate
       THEN pc' = "done" /\ num_epochs' = num_epochs
       ELSE pc' = "fit" /\ num_epochs' = num_epochs + 1
    /\ UNCHANGED <<exc, configVars, config, model_format, train_len, lr_config, trainer,
                   num_iterations, best_eval_score, checkpoint_dir, trainVars, conversion,
                   counters>>

Next ==
    \/ LoadConfig
    \/ CreateModel
    \/ ModelChannelsLast
    \/ CreateLoaders
    \/ CreateOptimizer
    \/ CreateLrScheduler
    \/ CreateTrainerObject
    \/ FitLoop
    \/ TrainBegin
    \/ TrainIterPlain
    \/ TrainIterProfile
    \/ TrainIterXpuProfile
    \/ TrainReport
    \/ FitAfterTrain

Spec == Init /\ [][Next]_vars
SpecConfig == InitConfig /\ [][Next]_vars

(* ------------------------------ validate ------------------------------ *)
\* a constructed trainer (fresh or resumed) on which validate() is called: the
\* validation loader has up to MaxValLen batches, validate_iters is None or an int
InitValidate ==
    /\ pc = "validate"
    /\ exc = "None"
    /\ args \in ArgsOf({2}, {"float32"}, {DefaultChannelsLast}, {FALSE}, {FALSE},
                       {MaxNumIter}, {0}, {"cpu"})
    /\ args.profile = FALSE
    /\ yaml_file = YamlFull(2000, TrainerSection(1, MaxCfgIterations))
    /\ cuda_available = FALSE
    /\ disk = EmptyDict
    /\ config = SetCliKeys(SetBatchSize(SetDevice(yaml_file, DeviceChoice(args)), args),
                           args)
    /\ model_format = "contiguous"
    /\ train_len \in {MaxTrainLen}
    /\ lr_config = LrSchedulerConfig(config)
    /\ trainer = [max_num_epochs |-> 1, max_num_iterations |-> MaxCfgIterations,
                  validate_after_iters |-> 2, lr |-> 2000, resume |-> None]
    /\ num_iterations \in 0..MaxResumeIter
    /\ num_epochs = 0
    /\ best_eval_score = NegInf
    /\ checkpoint_dir = "out"
    /\ batch = 0
    /\ total_time = 0
    /\ total_count = 0
    /\ calls = << >>
    /\ input_format = "contiguous"
    /\ conversion = "none"
    /\ report = None
    /\ should_terminate = FALSE
    /\ validate_calls = 0
    /\ scheduler_steps = 0
    /\ validate_iters \in {None} \cup {IntVal(k) : k \in 0..MaxValidateIters}
    /\ val_len \in 0..MaxValLen
    /\ val_i = 0
    /\ val_forward = 0
    /\ val_updates = 0
    /\ eval_score_higher_is_better = TRUE
    /\ is_best = FALSE
    /\ saver = None

\* line 415: does validate() stop after the batch with index i
StopValidation(iters, i) == iters # None /\ iters.v <= i

\* lines 401-417: one round of the validation loop on the batch with index i
ValidationBody(st, iters, i) ==
    [forward |-> st.forward + 1,
     updates |-> st.updates + 1,
     stop |-> StopValidation(iters, i)]

\* lines 394-401: validate() starts; an empty loader skips the loop
ValidateBegin ==
    /\ pc = "validate"
    /\ val_i' = 0
    /\ val_forward' = 0
    /\ val_updates' = 0
    /\ pc' = IF val_len = 0 THEN "validate_end" ELSE "validate_loop"
    /\ UNCHANGED <<exc, configVars, config, model_format, train_len, lr_config, selfVars,
                   trainVars, conversion, validate_calls, scheduler_steps, validate_iters,
                   val_len, ckptVars>>

\* lines 401-417: the next validation batch is evaluated
ValidateIter ==
    /\ pc = "validate_loop"
    /\ LET r == ValidationBody([forward |-> val_forward, updates |-> val_updates],
                               validate_iters, val_i)
       IN  /\ val_forward' = r.forward
           /\ val_updates' = r.updates
           /\ val_i' = val_i + 1
           /\ pc' = IF r.stop \/ val_i + 1 = val_len THEN "validate_end"
                    ELSE "validate_loop"
    /\ UNCHANGED <<exc, configVars, config, model_format, train_len, lr_config, selfVars,
                   trainVars, conversion, validate_calls, scheduler_steps, validate_iters,
                   val_len, ckptVars>>

\* lines 419-421: the statistics are logged and the average score is returned
ValidateEnd ==
    /\ pc = "validate_end"
    /\ pc' = "validated"
    /\ UNCHANGED <<exc, configVars, config, model_format, train_len, lr_config, selfVars,
                   trainVars, conversion, counters>>

NextValidate ==
    \/ ValidateBegin
    \/ ValidateIter
    \/ ValidateEnd

SpecValidate == InitValidate /\ [][NextValidate]_vars

(* ----------------------------- checkpoints ----------------------------- *)
\* lines 144-147: the best score of a trainer that has not validated yet
InitialBestEvalScore(higher) == IF higher THEN NegInf ELSE PosInf

\* a constructed trainer that has trained for a while and is about to compare an
\* evaluation score with its best one and to save a checkpoint
InitCheckpoint ==
    /\ pc = "is_best"
    /\ exc = "None"
    /\ args \in ArgsOf({2}, {"float32"}, {DefaultChannelsLast}, {FALSE}, {FALSE},
                       {MaxNumIter}, {0}, {"cpu"})
    /\ args.profile = FALSE
    /\ yaml_file = YamlFull(2000, TrainerSection(MaxSavedEpochs + 1, MaxCfgIterations))
    /\ cuda_available = FALSE
    /\ disk = EmptyDict
    /\ config = SetCliKeys(SetBatchSize(SetDevice(yaml_file, DeviceChoice(args)), args),
                           args)
    /\ model_format = "contiguous"
    /\ train_len \in {MaxTrainLen}
    /\ lr_config = LrSchedulerConfig(config)
    /\ trainer = [max_num_epochs |-> MaxSavedEpochs + 1,
                  max_num_iterations |-> MaxCfgIterations,
                  validate_after_iters |-> 2, lr |-> 2000, resume |-> None]
    /\ num_iterations \in 0..MaxResumeIter
    /\ num_epochs \in 0..MaxSavedEpochs
    /\ eval_score_higher_is_better \in BOOLEAN
    /\ best_eval_score \in {InitialBestEvalScore(eval_score_higher_is_better), 5}
    /\ checkpoint_dir \in CheckpointDirs
    /\ batch = 0
    /\ total_time = 0
    /\ total_count = 0
    /\ calls = << >>
    /\ input_format = "contiguous"
    /\ conversion = "none"
    /\ report = None
    /\ should_terminate = FALSE
    /\ validate_calls = 0
    /\ scheduler_steps = 0
    /\ validate_iters = None
    /\ val_len = 0
    /\ val_i = 0
    /\ val_forward = 0
    /\ val_updates = 0
    /\ is_best = FALSE
    /\ saver = None

\* lines 450-454: is the score better than the best one so far
IsBetter(higher, eval_score, best) ==
    IF higher THEN eval_score > best ELSE eval_score < best

\* lines 450-460: _is_best_eval_score(eval_score)
IsBestEvalScore ==
    /\ pc = "is_best"
    /\ \E eval_score \in EvalScores :
          /\ is_best' = IsBetter(eval_score_higher_is_better, eval_score, best_eval_score)
          /\ best_eval_score' = IF is_best' THEN eval_score ELSE best_eval_score
    /\ pc' = "save_checkpoint"
    /\ UNCHANGED <<exc, configVars, config, model_format, train_len, lr_config, trainer,
                   num_iterations, num_epochs, checkpoint_dir, trainVars, conversion,
                   validate_calls, scheduler_steps, valVars, eval_score_higher_is_better,
                   saver>>

\* the record with the epoch counter as it stands
SavedStateSameEpoch(epochs, iterations, best) ==
    [num_epochs |-> epochs,
     num_iterations |-> iterations,
     best_eval_score |-> best]

\* lines 473-479: the record _save_checkpoint hands to utils.save_checkpoint
SavedState(epochs, iterations, best) ==
    [num_epochs |-> epochs + 1,
     num_iterations |-> iterations,
     best_eval_score |-> best]

\* utils.save_checkpoint(state, is_best, checkpoint_dir): the record goes to the
\* last-checkpoint file of the directory and, when is_best, to the best-score one
WriteCheckpoint(files, state, best, dir) ==
    LET last == SetItem(files, PathJoin(dir, LastCheckpoint), state)
    IN  IF best THEN SetItem(last, PathJoin(dir, BestCheckpoint), state) ELSE last

\* lines 462-479: _save_checkpoint(is_best)
SaveCheckpoint ==
    /\ pc = "save_checkpoint"
    /\ disk' = WriteCheckpoint(disk, SavedState(num_epochs, num_iterations, best_eval_score),
                               is_best, checkpoint_dir)
    /\ saver' = [num_epochs |-> num_epochs, num_iterations |-> num_iterations,
                 best_eval_score |-> best_eval_score, checkpoint_dir |-> checkpoint_dir]
    /\ pc' = "saved"
    /\ UNCHANGED <<exc, args, yaml_file, cuda_available, config, model_format, train_len,
                   lr_config, selfVars, trainVars, conversion, validate_calls,
                   scheduler_steps, valVars, eval_score_higher_is_better, is_best>>

\* lines 115-168: a new trainer is constructed with resume naming a saved file; the
\* checkpoint_dir argument and eval_score_higher_is_better are the constructor's own
ResumeTrainer ==
    /\ pc = "saved"
    /\ \E path \in DOMAIN disk, higher \in BOOLEAN :
          LET state == RestoredState(Str(path), disk)
          IN  /\ eval_score_higher_is_better' = higher
              /\ trainer' = [trainer EXCEPT !.resume = Str(path)]
              /\ num_iterations' = state.num_iterations
              /\ num_epochs' = state.num_epochs
              /\ best_eval_score' = state.best_eval_score
              /\ checkpoint_dir' = DirName(path)
    /\ pc' = "resumed"
    /\ UNCHANGED <<exc, configVars, config, model_format, train_len, lr_config, trainVars,
                   conversion, validate_calls, scheduler_steps, valVars, is_best, saver>>

NextCheckpoint ==
    \/ IsBestEvalScore
    \/ SaveCheckpoint
    \/ ResumeTrainer

SpecCheckpoint == InitCheckpoint /\ [][NextCheckpoint]_vars

(* ------------------------------- claims ------------------------------- *)
\* the trainer did not resume from a checkpoint: train() starts at num_iterations = 0
Fresh == trainer.resume = None
\* the batch loop of train() has ended and line 368 is next
LoopEnded == pc = "train_report"
\* train() printed its report and returned
Returned == pc = "train_returned"
\* the number of iterations train() measures on a fresh trainer
TimedIterations == Min(train_len, config.num_iter) - config.num_warmup - 1

\* C1 as stated: with W < N - 1 a train() call on a fresh trainer times exactly
\* N - W - 1 iterations whatever the length (>= 1) of the train loader, and the reported
\* throughput is batch_size * (N - W - 1) / total_time.
C1_TimesNMinusWMinusOne ==
    /\ (LoopEnded /\ Fresh /\ train_len >= 1 /\ config.num_warmup < config.num_iter - 1)
          => total_count = config.num_iter - config.num_warmup - 1
    /\ (Returned /\ Fresh /\ train_len >= 1 /\ config.num_warmup < config.num_iter - 1)
          => report.perf.num * total_time =
                config.loaders.batch_size * (config.num_iter - config.num_warmup - 1)
                   * report.perf.den

\* C1 amended: with L the length of the train loader and W < min(L, N) - 1, a train()
\* call on a fresh trainer whose batch loop ends has timed exactly min(L, N) - W - 1
\* iterations, and the reported throughput is batch_size * (min(L, N) - W - 1) /
\* total_time.
C1_TimesMinLenNMinusWMinusOne ==
    /\ (LoopEnded /\ Fresh /\ TimedIterations > 0) => total_count = TimedIterations
    /\ (Returned /\ Fresh /\ TimedIterations > 0)
          => /\ report.total_count = TimedIterations
             /\ report.total_time = total_time
             /\ report.perf.num * total_time =
                   config.loaders.batch_size * TimedIterations * report.perf.den

\* a fresh trainer whose loader is shorter than num_iter has printed its report
C1_Witness ==
    /\ Returned /\ Fresh
    /\ train_len < config.num_iter
    /\ total_count = train_len - config.num_warmup - 1
    /\ total_time > total_count

\* C2: with a non-empty train loader the batch loop of train() ends with
\* total_count >= 1 and train() never raises ZeroDivisionError.
C2_AlwaysReports ==
    train_len >= 1 =>
        /\ exc # "ZeroDivisionError"
        /\ LoopEnded => total_count >= 1

\* C3: every iteration of every path of train() changes num_iterations and
\* total_count, issues the training calls, leaves the loop and raises exactly as the
\* unprofiled loop body does in the same state.
C3_PathsAgree ==
    [][(pc = "train_loop" /\ batch' = batch + 1) =>
          \E ok \in BOOLEAN, duration \in 1..MaxDuration :
             LET r == PlainBody(LoopState, config, LastIter(train_len, config), ok,
                                duration)
             IN  /\ num_iterations' = r.num_iterations
                 /\ total_count' = r.total_count
                 /\ calls' = r.calls
                 /\ exc' = r.exc
                 /\ (pc' = "train_report") = (r.stop \/ batch + 1 = train_len)]_vars

\* the loop body of the path the configuration selects, with a successful conversion
BodyWithConversion(duration) ==
    IF TrainPath(config) = "profile"
    THEN ProfileBody(LoopState, config, LastIter(train_len, config), TRUE, duration)
    ELSE PlainBody(LoopState, config, LastIter(train_len, config), TRUE, duration)

\* C4: a channels-last conversion that raises RuntimeError is caught. In
\* create_trainer the model keeps the default format and construction goes on with
\* the loaders; in train() the iteration runs its forward pass on the unconverted
\* input, issues the same training calls and changes num_iterations, total_count and
\* the loop's control exactly as the iteration with a successful conversion.
C4_ConversionFailureFallsBack ==
    [][/\ (pc = "channels_last" /\ conversion' = "failed")
             => (pc' = "loaders" /\ exc' = "None" /\ model_format' = "contiguous")
       /\ (pc = "train_loop" /\ conversion' = "failed")
             => /\ exc' = "None"
                /\ input_format' = "contiguous"
                /\ calls' = <<"forward", "loss", "zero_grad", "backward", "step">>
                /\ \E duration \in 1..MaxDuration :
                      LET r == BodyWithConversion(duration)
                      IN  /\ num_iterations' = r.num_iterations
                          /\ total_count' = r.total_count
                          /\ total_time' = r.total_time
                          /\ (pc' = "train_report") = (r.stop \/ batch + 1 = train_len)
                          /\ (pc' = "train_loop") = ~(r.stop \/ batch + 1 = train_len)
      ]_vars

\* an iteration whose conversion failed has run and advanced num_iterations, after a
\* create_trainer whose model stayed in the default format
C4_Witness ==
    /\ pc \in {"train_loop", "train_report"}
    /\ batch >= 1
    /\ conversion = "failed"
    /\ model_format = "contiguous"
    /\ Truthy(config.channels_last)
    /\ num_iterations = batch
    /\ calls = TrainingCalls

\* load_config has returned its dictionary
Loaded == pc = "create_trainer"

\* the device lines 28-36 resolve and log for the YAML file and CUDA availability
ResolvedDevice == ResolveDevice(yaml_file, cuda_available)

\* C5: the device of the returned config is the one resolved from the YAML file and
\* CUDA availability: a YAML device starting with 'cuda' without CUDA gives 'cpu'; no
\* YAML device gives 'cuda:0' with CUDA and 'cpu' without.
C5_DeviceFromYamlAndCuda ==
    Loaded =>
       /\ (HasKey(yaml_file, "device") /\ StartsWithCuda(yaml_file.device.v)
              /\ ~cuda_available)
             => /\ ResolvedDevice = "cpu"
                /\ config.device_str = "cpu"
                /\ config.device = TorchDevice("cpu")
       /\ ~HasKey(yaml_file, "device")
             => /\ ResolvedDevice = (IF cuda_available THEN "cuda:0" ELSE "cpu")
                /\ config.device_str = ResolvedDevice
                /\ config.device = TorchDevice(ResolvedDevice)

\* the top-level keys load_config stores command-line values under
CliKeys ==
    {"precision", "channels_last", "jit", "profile", "num_iter", "num_warmup",
     "nv_fuser", "ipex", "device_str"}
\* the command-line values are in the config
CliValuesStored ==
    /\ config.loaders.batch_size = args.batch_size
    /\ config.precision = args.precision
    /\ config.channels_last = args.channels_last
    /\ config.jit = args.jit
    /\ config.profile = args.profile
    /\ config.num_iter = args.num_iter
    /\ config.num_warmup = args.num_warmup
    /\ config.nv_fuser = args.nv_fuser
    /\ config.ipex = args.ipex
    /\ config.device_str = args.device
\* the keys of the YAML file outside `written` are in the config unchanged
OtherKeysKept(written) ==
    /\ \A k \in (DOMAIN yaml_file) \ (written \cup {"loaders"}) :
          HasKey(config, k) /\ config[k] = yaml_file[k]
    /\ \A k \in (DOMAIN yaml_file.loaders) \ {"batch_size"} :
          HasKey(config.loaders, k) /\ config.loaders[k] = yaml_file.loaders[k]

\* C6 as stated: the listed keys hold the command-line values and every other key of
\* the YAML file is returned unchanged.
C6_OnlyListedKeysChange ==
    Loaded => (CliValuesStored /\ OtherKeysKept(CliKeys))

\* C6 amended: the listed keys and the key device hold the command-line values
\* (device the torch.device of --device), every other key of the YAML file is
\* returned unchanged, and the result has no further keys.
C6_ListedKeysAndDeviceChange ==
    Loaded =>
       /\ CliValuesStored
       /\ config.device = TorchDevice(args.device)
       /\ OtherKeysKept(CliKeys \cup {"device"})
       /\ DOMAIN config = (DOMAIN yaml_file) \cup CliKeys \cup {"device"}
       /\ DOMAIN config.loaders = (DOMAIN yaml_file.loaders) \cup {"batch_size"}

\* a YAML file that carries command-line keys and a device was merged
C6_Witness ==
    /\ Loaded
    /\ HasKey(yaml_file, "precision") /\ yaml_file.precision # args.precision
    /\ HasKey(yaml_file, "num_iter") /\ yaml_file.num_iter # args.num_iter
    /\ HasKey(yaml_file, "device")
    /\ yaml_file.loaders.batch_size # args.batch_size
    /\ config.precision = args.precision
    /\ config.manual_seed = yaml_file.manual_seed

\* the nested sections the YAML file lacks
MissingSections == Sections \ DOMAIN yaml_file
\* create_trainer has returned a trainer
TrainerReturned == trainer # None
\* the run ended in an uncaught exception
Raised == pc = "raised"

\* C7 as stated: a YAML file that lacks one of the five sections ends in KeyError; no
\* default is substituted for the section and no trainer is returned.
C7_AnyMissingSectionRaises ==
    MissingSections # {} =>
       /\ ~TrainerReturned
       /\ Raised => exc = "KeyError"
       /\ pc = "trainer" => lr_config # None

\* C7 amended: a YAML file that lacks loaders, trainer, optimizer or model ends in
\* KeyError and no trainer is returned; a file that lacks only lr_scheduler raises no
\* KeyError: None is substituted for the section and handed to create_lr_scheduler.
C7_RequiredSectionRaises ==
    /\ (MissingSections \cap {"loaders", "trainer", "optimizer", "model"} # {})
          => /\ ~TrainerReturned
             /\ pc \in {"load_config", "create_trainer", "channels_last", "loaders",
                        "optimizer", "lr_scheduler", "trainer", "raised"}
             /\ Raised => exc = "KeyError"
             /\ ("loaders" \in MissingSections /\ pc # "load_config") => Raised
             /\ ("model" \in MissingSections
                    /\ pc \notin {"load_config", "create_trainer"}) => Raised
             /\ ("optimizer" \in MissingSections
                    /\ pc \notin {"load_config", "create_trainer", "channels_last",
                                  "loaders", "optimizer"}) => Raised
    /\ (MissingSections = {"lr_scheduler"})
          => /\ exc # "KeyError"
             /\ pc \notin {"load_config", "create_trainer", "channels_last", "loaders",
                           "optimizer", "lr_scheduler"} => lr_config = None

\* a run whose YAML file lacks the optimizer section ended in KeyError at line 53
C7_Witness ==
    /\ Raised
    /\ exc = "KeyError"
    /\ MissingSections = {"optimizer"}
    /\ train_len > 0
    /\ ~TrainerReturned

\* C8: train() returns True exactly when the stopping criterion of should_stop holds.
C8_ReturnsShouldStop ==
    Returned => (should_terminate = should_stop)

\* C9: once the stopping criterion holds after a batch of train(), no further batch
\* is processed, and no batch takes num_iterations beyond max_num_iterations + 1.
C9_NoBatchAfterStop ==
    [][(pc = "train_loop" /\ batch' = batch + 1) =>
          /\ batch >= 1 => ~should_stop
          /\ num_iterations <= trainer.max_num_iterations + 1
                => num_iterations' <= trainer.max_num_iterations + 1]_vars

\* C10: whenever num_iterations passes a multiple of validate_after_iters, validate()
\* and lr_scheduler.step() are each called once, and they are called at no other time.
C10_ValidatesEveryNIterations ==
    [][/\ (num_iterations' = num_iterations + 1 /\ pc = "train_loop"
              /\ num_iterations' % trainer.validate_after_iters = 0)
             => /\ validate_calls' = validate_calls + 1
                /\ scheduler_steps' = scheduler_steps + 1
       /\ validate_calls' - validate_calls = scheduler_steps' - scheduler_steps]_vars

\* validate() has returned
Validated == pc = "validated"

\* C11: with validate_iters = k and a validation loader of at least k batches,
\* validate() evaluates exactly k batches (k forward passes, k score updates); with
\* validate_iters = None it evaluates every batch of the loader exactly once.
C11_ValidateItersBatches ==
    Validated =>
       /\ (validate_iters # None /\ val_len >= validate_iters.v)
             => (val_forward = validate_iters.v /\ val_updates = validate_iters.v)
       /\ validate_iters = None
             => (val_forward = val_len /\ val_updates = val_len)

\* a trainer has been constructed from a file that _save_checkpoint wrote
Resumed == pc = "resumed"

\* C12: a trainer resumed from the checkpoint that _save_checkpoint wrote has the
\* num_epochs, num_iterations and best_eval_score the saving trainer had at the
\* moment of saving, and the directory of the resumed file as its checkpoint_dir.
C12_ResumeRestoresProgress ==
    Resumed =>
       /\ num_epochs = saver.num_epochs
       /\ num_iterations = saver.num_iterations
       /\ best_eval_score = saver.best_eval_score
       /\ checkpoint_dir = DirName(trainer.resume.v)

\* C12 (amended): the resumed trainer has the saving trainer's num_iterations and
\* best_eval_score, its num_epochs plus one, and the directory of the resumed file,
\* which is the saving trainer's checkpoint_dir, as its checkpoint_dir; none of the
\* constructor's initial values 0, 0, -inf/+inf is left in place of a restored one.
C12_ResumeAtNextEpoch ==
    Resumed =>
       /\ num_epochs = saver.num_epochs + 1
       /\ num_iterations = saver.num_iterations
       /\ best_eval_score = saver.best_eval_score
       /\ checkpoint_dir = DirName(trainer.resume.v)
       /\ checkpoint_dir = saver.checkpoint_dir

\* a trainer that had made progress saved to ckpt, and a trainer whose initial best
\* score would be +inf was resumed from the file
C12_Witness ==
    /\ Resumed
    /\ saver.num_epochs = 1
    /\ num_epochs = 2
    /\ saver.num_iterations = 2
    /\ num_iterations = 2
    /\ saver.best_eval_score = 9
    /\ best_eval_score = 9
    /\ ~eval_score_higher_is_better
    /\ saver.checkpoint_dir = "ckpt"
    /\ checkpoint_dir = "ckpt"
====
